---- MODULE Spec2Model ----
(***************************************************************************)
(* Model of the edge-llm-gateway Worker (src/src/index.ts): the fetch      *)
(* handler that admits a request by method, path and bearer credential,    *)
(* forwards it to the upstream (LiteLLM) and relays the upstream's         *)
(* response, or answers 502 when the upstream call fails.                  *)
(*                                                                         *)
(* Texts (JavaScript strings) are sequences of one-character strings, so   *)
(* that startsWith, slice, concatenation and JSON.stringify are computed   *)
(* character by character.                                                 *)
(***************************************************************************)
EXTENDS Integers, Sequences, FiniteSets, TLC

VARIABLES env, sent, request, pc, upstreamCalls, upstreamResults, responses, faults,
          inflight

vars == <<env, sent, request, pc, upstreamCalls, upstreamResults, responses, faults,
          inflight>>

(***************************************************************************)
(* Bounds of the model.                                                    *)
(***************************************************************************)
\* Longest credential (configured or presented) drawn over Alphabet.
MaxTokenLen == 1

(***************************************************************************)
(* Texts.                                                                  *)
(***************************************************************************)
\* JavaScript null (an absent header, an absent body). No text equals it:
\* every element of a text is a single character.
Null == <<"null">>

Alphabet == {"k", "K", " "}

RECURSIVE TextsUpTo(_)
TextsUpTo(n) ==
  IF n = 0 THEN {<<>>}
  ELSE LET shorter == TextsUpTo(n - 1)
       IN  shorter \cup {Append(t, c) : t \in {s \in shorter : Len(s) = n - 1}, c \in Alphabet}

Tokens == TextsUpTo(MaxTokenLen)

\* String.prototype.startsWith
StartsWith(s, prefix) ==
  /\ Len(s) >= Len(prefix)
  /\ SubSeq(s, 1, Len(prefix)) = prefix

\* String.prototype.slice(n), n >= 0
Slice(s, n) == SubSeq(s, n + 1, Len(s))

\* JavaScript truthiness of a string-or-null value: null and "" are falsy.
Truthy(v) == v # Null /\ v # <<>>

(***************************************************************************)
(* Literals of the source.                                                 *)
(***************************************************************************)
BearerPrefix == <<"B", "e", "a", "r", "e", "r", " ">>
BearerPrefixLen == 7
ApplicationJson == <<"a", "p", "p", "l", "i", "c", "a", "t", "i", "o", "n", "/", "j", "s", "o", "n">>
ChatCompletionsPath == <<"/", "v", "1", "/", "c", "h", "a", "t", "/", "c", "o", "m", "p", "l", "e", "t", "i", "o", "n", "s">>
ErrorKey == <<"e", "r", "r", "o", "r">>
MethodNotAllowedText == <<"M", "e", "t", "h", "o", "d", " ", "N", "o", "t", " ", "A", "l", "l", "o", "w", "e", "d">>
NotFoundText == <<"N", "o", "t", " ", "F", "o", "u", "n", "d">>
UnauthorizedText == <<"U", "n", "a", "u", "t", "h", "o", "r", "i", "z", "e", "d">>
BadGatewayText == <<"B", "a", "d", " ", "G", "a", "t", "e", "w", "a", "y">>

(***************************************************************************)
(* The runtime's Request: header names are looked up case-insensitively,   *)
(* header values are stored with leading and trailing HTTP whitespace      *)
(* removed, and the URL is parsed into its components.                     *)
(***************************************************************************)
HttpWhitespace == {" ", "\t", "\n", "\r"}

RECURSIVE StripLeading(_)
StripLeading(s) ==
  IF s # <<>> /\ Head(s) \in HttpWhitespace THEN StripLeading(Tail(s)) ELSE s

RECURSIVE StripTrailing(_)
StripTrailing(s) ==
  IF s # <<>> /\ s[Len(s)] \in HttpWhitespace
  THEN StripTrailing(SubSeq(s, 1, Len(s) - 1))
  ELSE s

\* The value a Headers object stores for a value handed to it.
NormalizeHeaderValue(v) == StripTrailing(StripLeading(v))

\* ASCII case mapping of one character.
UpperLetters == "ABCDEFGHIJKLMNOPQRSTUVWXYZ"

LowerLetters == "abcdefghijklmnopqrstuvwxyz"

AsciiLower ==
  [c \in {SubSeq(UpperLetters, i, i) : i \in 1..Len(UpperLetters)} |->
     LET i == CHOOSE j \in 1..Len(UpperLetters) : SubSeq(UpperLetters, j, j) = c
     IN  SubSeq(LowerLetters, i, i)]

AsciiUpper ==
  [c \in {SubSeq(LowerLetters, i, i) : i \in 1..Len(LowerLetters)} |->
     LET i == CHOOSE j \in 1..Len(LowerLetters) : SubSeq(LowerLetters, j, j) = c
     IN  SubSeq(UpperLetters, i, i)]

LowerChar(c) == IF c \in DOMAIN AsciiLower THEN AsciiLower[c] ELSE c

UpperChar(c) == IF c \in DOMAIN AsciiUpper THEN AsciiUpper[c] ELSE c

\* Header names are byte-lowercased when stored and when looked up: every
\* ASCII capital of the name becomes its small letter.
RECURSIVE LowerFrom(_, _)
LowerFrom(name, i) ==
  IF i > Len(name) THEN ""
  ELSE LowerChar(SubSeq(name, i, i)) \o LowerFrom(name, i + 1)

LowerName(name) == LowerFrom(name, 1)

\* The values the caller wrote for a header, in the order written and in
\* whatever spelling of its name.
RECURSIVE Written(_, _)
Written(init, name) ==
  IF init = <<>> THEN <<>>
  ELSE (IF LowerName(Head(init)[1]) = LowerName(name) THEN <<Head(init)[2]>> ELSE <<>>)
       \o Written(Tail(init), name)

\* The values init gives for the stored name n, normalised, in the order
\* they were written.
RECURSIVE ValuesOf(_, _)
ValuesOf(init, n) ==
  IF init = <<>> THEN <<>>
  ELSE (IF LowerName(Head(init)[1]) = n THEN <<NormalizeHeaderValue(Head(init)[2])>> ELSE <<>>)
       \o ValuesOf(Tail(init), n)

RECURSIVE JoinValues(_)
JoinValues(values) ==
  IF Len(values) = 1 THEN Head(values)
  ELSE Head(values) \o <<",", " ">> \o JoinValues(Tail(values))

\* new Headers(init): init is the sequence of the <<name, value>> entries of
\* the caller's object in the order they were written, the names as the
\* caller spelled them and the values as the caller wrote them. Each entry is
\* appended: the name is lowercased, the value normalised, and the values of
\* entries whose names differ by case only are joined with ", ".
NewHeaders(init) ==
  [n \in {LowerName(init[i][1]) : i \in 1..Len(init)} |-> JoinValues(ValuesOf(init, n))]

\* Headers.prototype.get
HeadersGet(headers, name) ==
  IF LowerName(name) \in DOMAIN headers THEN headers[LowerName(name)] ELSE Null

\* Index of the first character of s, at or after position i, that is in
\* stops; Len(s) + 1 when there is none.
RECURSIVE FirstOf(_, _, _)
FirstOf(s, i, stops) ==
  IF i > Len(s) THEN Len(s) + 1
  ELSE IF s[i] \in stops THEN i
  ELSE FirstOf(s, i + 1, stops)

\* The text with every ASCII capital made small.
LowerText(t) == [i \in 1..Len(t) |-> LowerChar(t[i])]

\* The segments of the text that follows the first "/" of a path; in an http
\* URL a backslash separates segments as a slash does.
RECURSIVE SplitPath(_)
SplitPath(s) ==
  LET j == FirstOf(s, 1, {"/", "\\"})
  IN  IF j > Len(s) THEN <<s>>
      ELSE <<SubSeq(s, 1, j - 1)>> \o SplitPath(SubSeq(s, j + 1, Len(s)))

IsSingleDot(seg) == LowerText(seg) \in {<<".">>, <<"%", "2", "e">>}

IsDoubleDot(seg) ==
  LowerText(seg) \in { <<".", ".">>, <<".", "%", "2", "e">>, <<"%", "2", "e", ".">>,
                       <<"%", "2", "e", "%", "2", "e">> }

\* The path state of the URL parser: a double-dot segment removes the
\* segment before it, a single-dot segment is dropped, and either of them in
\* last position leaves an empty segment.
RECURSIVE RemoveDotSegments(_, _)
RemoveDotSegments(segs, out) ==
  IF segs = <<>> THEN out
  ELSE LET seg  == Head(segs)
           last == IF Len(segs) = 1 THEN << <<>> >> ELSE <<>>
       IN  IF IsDoubleDot(seg)
           THEN RemoveDotSegments(Tail(segs),
                  (IF out = <<>> THEN <<>> ELSE SubSeq(out, 1, Len(out) - 1)) \o last)
           ELSE IF IsSingleDot(seg)
           THEN RemoveDotSegments(Tail(segs), out \o last)
           ELSE RemoveDotSegments(Tail(segs), Append(out, seg))

RECURSIVE JoinPath(_)
JoinPath(segs) ==
  IF segs = <<>> THEN <<>> ELSE <<"/">> \o Head(segs) \o JoinPath(Tail(segs))

\* The serialisation of the parsed URL, for an absolute http(s) URL
\* "scheme://host/path?query" without credentials and port and without
\* characters the parser would percent-encode: scheme and host lowercased,
\* the path with its dot segments removed ("/" when the URL has none), the
\* query as written.
UrlSerialize(url) ==
  LET schemeEnd == FirstOf(url, 1, {":"})
      hostStart == schemeEnd + 3
      hostEnd   == FirstOf(url, hostStart, {"/", "\\", "?", "#"})
      pathEnd   == FirstOf(url, hostEnd, {"?", "#"})
      rawPath   == SubSeq(url, hostEnd, pathEnd - 1)
      segs      == IF rawPath = <<>> THEN << <<>> >> ELSE SplitPath(Tail(rawPath))
  IN  LowerText(SubSeq(url, 1, schemeEnd - 1)) \o <<":", "/", "/">>
      \o LowerText(SubSeq(url, hostStart, hostEnd - 1))
      \o JoinPath(RemoveDotSegments(segs, <<>>))
      \o SubSeq(url, pathEnd, Len(url))

\* URL.pathname: the path of the parsed URL, that is of its serialisation
\* the part from the first "/" after the host up to, and without, the first
\* "?" or "#".
UrlPathname(url) ==
  LET href        == UrlSerialize(url)
      afterScheme == FirstOf(href, 1, {":"}) + 3
      pathStart   == FirstOf(href, afterScheme, {"/", "?", "#"})
      pathEnd     == FirstOf(href, pathStart, {"?", "#"})
  IN  SubSeq(href, pathStart, pathEnd - 1)

\* Method names as the Request constructor reads them.
RECURSIVE UpperFrom(_, _)
UpperFrom(name, i) ==
  IF i > Len(name) THEN ""
  ELSE UpperChar(SubSeq(name, i, i)) \o UpperFrom(name, i + 1)

UpperName(name) == UpperFrom(name, 1)

\* A method that matches DELETE, GET, HEAD, OPTIONS, POST or PUT without
\* regard to case is stored in capitals; any other is stored as written.
NormalizeMethod(method) ==
  IF UpperName(method) \in {"DELETE", "GET", "HEAD", "OPTIONS", "POST", "PUT"}
  THEN UpperName(method)
  ELSE method

\* The body a caller hands to the constructor: none, a string or bytes.
NoBody == [type |-> "none", data |-> Null]

StringBody(t) == [type |-> "string", data |-> t]

BytesBody(t) == [type |-> "bytes", data |-> t]

TextPlainUtf8 ==
  <<"t", "e", "x", "t", "/", "p", "l", "a", "i", "n", ";", "c", "h", "a", "r", "s", "e", "t", "=", "U", "T", "F", "-", "8">>

\* new Request(url, init) throws a TypeError for a forbidden method and for
\* a GET or HEAD request given a body, an empty one included.
NewRequestThrows(init) ==
  \/ UpperName(init.method) \in {"CONNECT", "TRACE", "TRACK"}
  \/ NormalizeMethod(init.method) \in {"GET", "HEAD"} /\ init.body.type # "none"

\* new Request(url, init): the method normalised, the URL parsed and
\* serialised, the headers stored in a Headers object, and the body as the
\* content of a byte stream (null when there is none). A body given as a
\* string brings its own type: without a Content-Type among the headers of
\* init the constructor adds text/plain;charset=UTF-8.
NewRequest(init) ==
  IF NewRequestThrows(init) THEN [error |-> "TypeError"]
  ELSE [method  |-> NormalizeMethod(init.method),
        url     |-> UrlSerialize(init.url),
        headers |-> IF init.body.type = "string" /\ Written(init.headers, "Content-Type") = <<>>
                    THEN NewHeaders(init.headers \o << <<"Content-Type", TextPlainUtf8>> >>)
                    ELSE NewHeaders(init.headers),
        body    |-> init.body.data]

(***************************************************************************)
(* jsonResponse (index.ts lines 1-6).                                      *)
(***************************************************************************)
\* A JSON string literal: the text in double quotes, with the double quote
\* and the backslash escaped.
RECURSIVE JsonEscape(_)
JsonEscape(s) ==
  IF s = <<>> THEN <<>>
  ELSE (IF Head(s) \in {"\"", "\\"} THEN <<"\\", Head(s)>> ELSE <<Head(s)>>)
       \o JsonEscape(Tail(s))

JsonQuote(s) == <<"\"">> \o JsonEscape(s) \o <<"\"">>

\* JSON.stringify of an object whose values are strings, given as the
\* sequence of its <<key, value>> properties in insertion order.
RECURSIVE JsonMembers(_)
JsonMembers(props) ==
  IF props = <<>> THEN <<>>
  ELSE JsonQuote(Head(props)[1]) \o <<":">> \o JsonQuote(Head(props)[2])
       \o (IF Tail(props) = <<>> THEN <<>> ELSE <<",">> \o JsonMembers(Tail(props)))

JSONStringify(props) == <<"{">> \o JsonMembers(props) \o <<"}">>

\* line 4: the Headers object made of { "Content-Type": "application/json" }.
JsonHeaders == NewHeaders(<< <<"Content-Type", ApplicationJson>> >>)

\* Faulty variant of jsonResponse: the body also carries the status text
\* under a second key.
jsonResponse_WithSecondKey(body, status) ==
  [status  |-> status,
   headers |-> JsonHeaders,
   body    |-> JSONStringify(body \o << <<ErrorKey, ErrorKey>> >>)]

jsonResponse(body, status) ==
  [status  |-> status,
   headers |-> JsonHeaders,
   body    |-> JSONStringify(body)]

(***************************************************************************)
(* The fetch handler (index.ts lines 9-41).                                *)
(***************************************************************************)
\* Faulty variant of MethodRejected: only GET is refused.
MethodRejected_OnlyGet(req) == req.method = "GET"

\* line 10
MethodRejected(req) == req.method # "POST"

\* lines 14-15
\* Faulty variant of PathRejected: the query string is compared with the
\* path.
PathRejected_IncludesQuery(req) ==
  LET url == req.url
      pathStart == FirstOf(url, FirstOf(url, 1, {":"}) + 3, {"/"})
  IN  SubSeq(url, pathStart, Len(url)) # ChatCompletionsPath

PathRejected(req) == UrlPathname(req.url) # ChatCompletionsPath

\* String.prototype.trim, then the comparison: a faulty variant of
\* CredentialRejected that trims the presented token.
\* Faulty variant of CredentialRejected: the credential is also accepted in
\* the X-Request-Id header.
CredentialRejected_AcceptsKeyInRequestId(req, e) ==
  LET authHeader == HeadersGet(req.headers, "Authorization")
  IN  /\ HeadersGet(req.headers, "X-Request-Id") # e.CLIENT_API_KEY
      /\ \/ ~Truthy(authHeader)
         \/ ~StartsWith(authHeader, BearerPrefix)
         \/ Slice(authHeader, BearerPrefixLen) # e.CLIENT_API_KEY

CredentialRejected_TrimsToken(req, e) ==
  LET authHeader == HeadersGet(req.headers, "Authorization")
  IN  \/ ~Truthy(authHeader)
      \/ ~StartsWith(authHeader, BearerPrefix)
      \/ NormalizeHeaderValue(Slice(authHeader, BearerPrefixLen)) # e.CLIENT_API_KEY

\* String.prototype.toLowerCase over the alphabet of the tokens.
ToLowerCase(s) == [i \in 1..Len(s) |-> IF s[i] = "K" THEN "k" ELSE s[i]]

\* Faulty variant of CredentialRejected: the token is compared without
\* regard to case.
CredentialRejected_IgnoresCase(req, e) ==
  LET authHeader == HeadersGet(req.headers, "Authorization")
  IN  \/ ~Truthy(authHeader)
      \/ ~StartsWith(authHeader, BearerPrefix)
      \/ ToLowerCase(Slice(authHeader, BearerPrefixLen)) # ToLowerCase(e.CLIENT_API_KEY)

\* Faulty variant of CredentialRejected: the prefix is not checked, the
\* first seven characters are dropped whatever they are.
CredentialRejected_NoPrefixCheck(req, e) ==
  LET authHeader == HeadersGet(req.headers, "Authorization")
  IN  \/ authHeader = Null
      \/ Slice(authHeader, BearerPrefixLen) # e.CLIENT_API_KEY

\* lines 19-24
CredentialRejected(req, e) ==
  LET authHeader == HeadersGet(req.headers, "Authorization")
  IN  \/ ~Truthy(authHeader)
      \/ ~StartsWith(authHeader, BearerPrefix)
      \/ Slice(authHeader, BearerPrefixLen) # e.CLIENT_API_KEY

\* line 28
TargetUrl(e) == e.LITELLM_URL \o ChatCompletionsPath

\* Faulty variant of UpstreamHeaders: the caller's Authorization header is
\* passed on with the Content-Type.
UpstreamHeaders_WithAuthorization(req) ==
  LET contentType == HeadersGet(req.headers, "Content-Type")
  IN  [n \in {"Content-Type", "Authorization"} |->
         IF n = "Authorization" THEN HeadersGet(req.headers, "Authorization")
         ELSE IF Truthy(contentType) THEN contentType ELSE ApplicationJson]

\* Faulty variant of UpstreamHeaders: every inbound header but Authorization
\* is passed on.
UpstreamHeaders_AllButAuthorization(req) ==
  LET contentType == HeadersGet(req.headers, "Content-Type")
  IN  [n \in {"Content-Type"} \cup (DOMAIN req.headers \ {"authorization", "content-type"}) |->
         IF n # "Content-Type" THEN req.headers[n]
         ELSE IF Truthy(contentType) THEN contentType ELSE ApplicationJson]

\* lines 32-35: the header object handed to the upstream fetch
UpstreamHeaders(req) ==
  LET contentType == HeadersGet(req.headers, "Content-Type")
  IN  [n \in {"Content-Type"} |->
         IF Truthy(contentType) THEN contentType ELSE ApplicationJson]

\* Faulty variant of UpstreamCall: the body is read as text and the text is
\* sent, so that an absent body becomes an empty one.
UpstreamCall_ReadsBodyAsText(req, e) ==
  [url     |-> TargetUrl(e),
   method  |-> "POST",
   headers |-> UpstreamHeaders(req),
   body    |-> IF req.body = Null THEN <<>> ELSE req.body]

\* Faulty variant of UpstreamCall: the query string of the inbound URL is
\* carried over to the target.
UpstreamCall_KeepsQuery(req, e) ==
  [url     |-> TargetUrl(e) \o SubSeq(req.url, FirstOf(req.url, 1, {"?"}), Len(req.url)),
   method  |-> "POST",
   headers |-> UpstreamHeaders(req),
   body    |-> req.body]

\* lines 30-37: the upstream call
UpstreamCall(req, e) ==
  [url     |-> TargetUrl(e),
   method  |-> "POST",
   headers |-> UpstreamHeaders(req),
   body    |-> req.body]

\* Faulty variant of Admit: the credential is checked before the path.
Admit_CredentialBeforePath(req, e) ==
  IF MethodRejected(req)
  THEN [pc |-> "done", calls |-> <<>>,
        responses |-> <<jsonResponse(<< <<ErrorKey, MethodNotAllowedText>> >>, 405)>>]
  ELSE IF CredentialRejected(req, e)
  THEN [pc |-> "done", calls |-> <<>>,
        responses |-> <<jsonResponse(<< <<ErrorKey, UnauthorizedText>> >>, 401)>>]
  ELSE IF PathRejected(req)
  THEN [pc |-> "done", calls |-> <<>>,
        responses |-> <<jsonResponse(<< <<ErrorKey, NotFoundText>> >>, 404)>>]
  ELSE [pc |-> "awaiting", calls |-> <<UpstreamCall(req, e)>>, responses |-> <<>>]

\* Faulty variant of Admit: a request without Authorization header is told
\* so.
Admit_ExplainsMissingHeader(req, e) ==
  IF MethodRejected(req)
  THEN [pc |-> "done", calls |-> <<>>,
        responses |-> <<jsonResponse(<< <<ErrorKey, MethodNotAllowedText>> >>, 405)>>]
  ELSE IF PathRejected(req)
  THEN [pc |-> "done", calls |-> <<>>,
        responses |-> <<jsonResponse(<< <<ErrorKey, NotFoundText>> >>, 404)>>]
  ELSE IF HeadersGet(req.headers, "Authorization") = Null
  THEN [pc |-> "done", calls |-> <<>>,
        responses |-> <<jsonResponse(<< <<ErrorKey, <<"M", "i", "s", "s", "i", "n", "g">>>> >>, 401)>>]
  ELSE IF CredentialRejected(req, e)
  THEN [pc |-> "done", calls |-> <<>>,
        responses |-> <<jsonResponse(<< <<ErrorKey, UnauthorizedText>> >>, 401)>>]
  ELSE [pc |-> "awaiting", calls |-> <<UpstreamCall(req, e)>>, responses |-> <<>>]

\* lines 10-37: what the handler does up to its only suspension point. It
\* either returns a synthesized rejection or issues the upstream call and
\* awaits it.
Admit(req, e) ==
  IF MethodRejected(req)
  THEN [pc |-> "done", calls |-> <<>>,
        responses |-> <<jsonResponse(<< <<ErrorKey, MethodNotAllowedText>> >>, 405)>>]
  ELSE IF PathRejected(req)
  THEN [pc |-> "done", calls |-> <<>>,
        responses |-> <<jsonResponse(<< <<ErrorKey, NotFoundText>> >>, 404)>>]
  ELSE IF CredentialRejected(req, e)
  THEN [pc |-> "done", calls |-> <<>>,
        responses |-> <<jsonResponse(<< <<ErrorKey, UnauthorizedText>> >>, 401)>>]
  ELSE [pc |-> "awaiting", calls |-> <<UpstreamCall(req, e)>>, responses |-> <<>>]

\* Faulty variant of OnUpstreamResponse: an upstream 5xx is replaced by the
\* gateway's own 502.
OnUpstreamResponse_Masks5xx(res, call) ==
  [pc        |-> "done",
   calls     |-> <<>>,
   responses |-> <<IF res.status >= 500
                   THEN jsonResponse(<< <<ErrorKey, BadGatewayText>> >>, 502)
                   ELSE res>>,
   faults    |-> <<>>]

\* Faulty variant of OnUpstreamResponse: an upstream 5xx is answered by
\* issuing the call again.
OnUpstreamResponse_Retries5xx(res, call) ==
  IF res.status >= 500
  THEN [pc |-> "awaiting", calls |-> <<call>>, responses |-> <<>>, faults |-> <<>>]
  ELSE [pc |-> "done", calls |-> <<>>, responses |-> <<res>>, faults |-> <<>>]

\* line 30: the awaited upstream fetch, issued as call, fulfils with res; the
\* handler returns it and issues no further call.
OnUpstreamResponse(res, call) ==
  [pc |-> "done", calls |-> <<>>, responses |-> <<res>>, faults |-> <<>>]

\* Faulty variant of OnUpstreamFailure: no catch clause, the rejection
\* escapes the handler.
OnUpstreamFailure_Rethrows(err, call) ==
  [pc |-> "done", calls |-> <<>>, responses |-> <<>>, faults |-> <<err>>]

\* Faulty variant of OnUpstreamFailure: the 502 carries the error's message.
OnUpstreamFailure_LeaksMessage(err, call) ==
  [pc        |-> "done",
   calls     |-> <<>>,
   responses |-> <<jsonResponse(<< <<ErrorKey, err.message>> >>, 502)>>,
   faults    |-> <<>>]

\* Faulty variant of OnUpstreamFailure: the catch clause returns nothing.
OnUpstreamFailure_ReturnsNothing(err, call) ==
  [pc |-> "done", calls |-> <<>>, responses |-> <<>>, faults |-> <<>>]

\* lines 38-40: the awaited upstream fetch, issued as call, rejects with err;
\* the catch clause binds nothing, returns the synthesized 502 and issues no
\* further call.
OnUpstreamFailure(err, call) ==
  [pc        |-> "done",
   calls     |-> <<>>,
   responses |-> <<jsonResponse(<< <<ErrorKey, BadGatewayText>> >>, 502)>>,
   faults    |-> <<>>]

(***************************************************************************)
(* The environment: configurations, callers and the upstream.              *)
(***************************************************************************)
\* How many requests the process handles at the same time.
NumSlots == 2

Slots == 1..NumSlots

UpstreamUrls == {<<"h", "t", "t", "p", "s", ":", "/", "/", "u">>,
                 <<"h", "t", "t", "p", ":", "/", "/", "u", "/", "x">>}

\* Env: the two bindings the handler reads.
Envs == [CLIENT_API_KEY : Tokens, LITELLM_URL : UpstreamUrls]

Methods == {"POST", "GET", "DELETE"}

Origin == <<"h", "t", "t", "p", ":", "/", "/", "h">>

RequestUrls ==
  { Origin \o ChatCompletionsPath,
    Origin \o ChatCompletionsPath \o <<"?", "k">>,
    Origin \o ChatCompletionsPath \o <<"?", "/", "k">>,
    Origin \o ChatCompletionsPath \o <<"/">>,
    Origin \o ChatCompletionsPath \o <<"/", "k">>,
    Origin \o <<"/", "k">> \o ChatCompletionsPath,
    Origin \o <<"/", "v", "1", "/", "m", "o", "d", "e", "l", "s">>,
    Origin \o <<"/", "V", "1", "/", "c", "h", "a", "t", "/", "c", "o", "m", "p", "l", "e", "t", "i", "o", "n", "s">> }

\* Authorization values as callers write them: a token alone, or a token
\* after "Bearer ", "bearer ", " Bearer " or "Bearer  ", with or without a
\* trailing space.
AuthSchemes ==
  { <<>>, BearerPrefix,
    <<"b", "e", "a", "r", "e", "r", " ">>,
    <<" ">> \o BearerPrefix,
    BearerPrefix \o <<" ">> }

AuthValues ==
  {scheme \o token \o pad :
     scheme \in AuthSchemes, token \in Tokens, pad \in {<<>>, <<" ">>}}

TextPlain == <<"t", "e", "x", "t", "/", "p", "l", "a", "i", "n">>

ContentTypeValues == {<<>>, TextPlain, <<"k">>, <<"K", "k">>}

RequestIdValues == {<<"k">>}

RequestBodies ==
  { StringBody(<<>>), StringBody(<<"k">>), BytesBody(<<>>), BytesBody(<<"{", "K", "k", "}">>) }

\* The header object of a caller that writes authorization a, content type c
\* and request id x, each of them a text or Null (the header is not sent).
HeadersInit(a, c, x) ==
  (IF a = Null THEN <<>> ELSE << <<"Authorization", a>> >>)
  \o (IF c = Null THEN <<>> ELSE << <<"Content-Type", c>> >>)
  \o (IF x = Null THEN <<>> ELSE << <<"X-Request-Id", x>> >>)

\* Header objects with names in other spellings, and with the same name
\* written twice in two spellings.
SpelledHeaders ==
  { << <<"AUTHORIZATION", BearerPrefix \o token>> >> : token \in {<<"k">>, <<"K">>} }
  \cup
  { << <<"Authorization", BearerPrefix \o token>>, <<"authorization", BearerPrefix \o <<"K">>>> >> :
      token \in {<<"k">>, <<"K">>} }
  \cup
  { << <<"authorization", BearerPrefix \o token>>, <<"CONTENT-TYPE", TextPlain>> >> :
      token \in {<<"k">>, <<"K">>} }

\* URLs in other spellings: capitals in scheme and host, dot segments.
SpelledUrls ==
  { <<"H", "T", "T", "P", ":", "/", "/", "H">> \o ChatCompletionsPath,
    Origin \o <<"/", "v", "1", "/", ".", "/", "c", "h", "a", "t", "/", "c", "o", "m", "p", "l", "e", "t", "i", "o", "n", "s">>,
    Origin \o <<"/", "k", "/", ".", ".">> \o ChatCompletionsPath,
    Origin \o ChatCompletionsPath \o <<"/", ".">>,
    Origin \o ChatCompletionsPath \o <<"?", ".", ".">> }

\* The requests callers build. The first family varies everything the
\* admission checks read (method, URL, Authorization) on a request with no
\* other header and no body; the second varies everything that is forwarded
\* (Content-Type, another header, body) on requests with and without the
\* right method, path and bearer token; the third varies the spelling of
\* method, URL and header names. The constructor refuses some of them.
RequestInits ==
  { [method |-> "POST", url |-> u, headers |-> HeadersInit(a, Null, Null), body |-> NoBody] :
      u \in RequestUrls, a \in AuthValues \cup {Null} }
  \cup
  { [method |-> m, url |-> u, headers |-> HeadersInit(a, Null, Null), body |-> NoBody] :
      m \in Methods, u \in RequestUrls,
      a \in {BearerPrefix \o token : token \in Tokens} \cup {Null} }
  \cup
  { [method |-> m, url |-> u, headers |-> h, body |-> b] :
      m \in {"post", "Get", "patch"},
      u \in SpelledUrls,
      h \in SpelledHeaders,
      b \in {NoBody, StringBody(<<"k">>)} }
  \cup
  { [method |-> m, url |-> u, headers |-> HeadersInit(a, c, x), body |-> b] :
      m \in {"POST", "GET"},
      u \in { Origin \o ChatCompletionsPath,
              Origin \o <<"/", "v", "1", "/", "m", "o", "d", "e", "l", "s">> },
      a \in {BearerPrefix \o token : token \in Tokens} \cup {Null},
      c \in ContentTypeValues \cup {Null},
      x \in RequestIdValues \cup {Null},
      b \in RequestBodies \cup {NoBody} }

UpstreamStatuses == {200, 401, 404, 405, 500, 502}

\* The responses the upstream may give to a call: any of the statuses, with
\* a body of its own, the gateway's own 502 text, or the body it received,
\* and with or without a header echoing the Content-Type it received.
UpstreamResponses(call) ==
  { [status |-> st, headers |-> h, body |-> b] :
      st \in UpstreamStatuses,
      h \in { NewHeaders(<< <<"Content-Type", ApplicationJson>> >>),
              NewHeaders(<< <<"Content-Type", TextPlain>>,
                            <<"X-Echo", call.headers["Content-Type"]>> >>) },
      b \in { <<"o", "k">>, JSONStringify(<< <<ErrorKey, BadGatewayText>> >>), call.body } }

\* The ways the upstream fetch may reject.
UpstreamErrors ==
  { [name |-> "TypeError", message |-> <<"r", "e", "f", "u", "s", "e", "d">>],
    [name |-> "TimeoutError", message |-> <<"t", "i", "m", "e", "o", "u", "t">>],
    [name |-> "Error", message |-> <<"d", "n", "s">>] }

(***************************************************************************)
(* State machine. upstreamCalls, upstreamResults, responses and faults are *)
(* the log of the request being handled: the upstream calls issued, what   *)
(* the upstream did, the responses returned to the caller and the          *)
(* exceptions that escaped the handler.                                    *)
(***************************************************************************)
\* One invocation of the handler among several running in the same process:
\* its position and its locals. Nothing else exists per invocation, and the
\* module has no variable of its own.
IdleInvocation ==
  [pc |-> "idle",
   sent |-> [method |-> "", url |-> <<>>, headers |-> HeadersInit(Null, Null, Null), body |-> NoBody],
   request |-> [method |-> "", url |-> <<>>, headers |-> NewHeaders(HeadersInit(Null, Null, Null)), body |-> Null],
   upstreamCalls |-> <<>>,
   upstreamResults |-> <<>>,
   responses |-> <<>>,
   faults |-> <<>>]

NoRequest == [method |-> "", url |-> <<>>, headers |-> NewHeaders(HeadersInit(Null, Null, Null)), body |-> Null]

Init ==
  /\ env \in Envs
  /\ sent = [method |-> "", url |-> <<>>, headers |-> HeadersInit(Null, Null, Null), body |-> NoBody]
  /\ request = NoRequest
  /\ pc = "idle"
  /\ upstreamCalls = <<>>
  /\ upstreamResults = <<>>
  /\ responses = <<>>
  /\ faults = <<>>
  /\ inflight = [s \in Slots |-> IdleInvocation]

\* A caller builds a request and sends it; the runtime runs the handler up
\* to its return or to the await of the upstream call. A request the
\* constructor refuses is never sent.
Fetch(init) ==
  /\ pc = "idle"
  /\ ~NewRequestThrows(init)
  /\ LET req == NewRequest(init)
         r   == Admit(req, env)
     IN  /\ sent' = init
         /\ request' = req
         /\ pc' = r.pc
         /\ upstreamCalls' = r.calls
         /\ responses' = r.responses
  /\ upstreamResults' = <<>>
  /\ faults' = <<>>
  /\ UNCHANGED <<env, inflight>>

\* The upstream answers the awaited call.
UpstreamResponds(res) ==
  /\ pc = "awaiting"
  /\ LET r == OnUpstreamResponse(res, upstreamCalls[Len(upstreamCalls)])
     IN  /\ pc' = r.pc
         /\ upstreamCalls' = upstreamCalls \o r.calls
         /\ responses' = responses \o r.responses
         /\ faults' = faults \o r.faults
  /\ upstreamResults' = Append(upstreamResults, [kind |-> "response", response |-> res])
  /\ UNCHANGED <<env, sent, request, inflight>>

\* The awaited call fails in transport.
UpstreamFails(err) ==
  /\ pc = "awaiting"
  /\ LET r == OnUpstreamFailure(err, upstreamCalls[Len(upstreamCalls)])
     IN  /\ pc' = r.pc
         /\ upstreamCalls' = upstreamCalls \o r.calls
         /\ responses' = responses \o r.responses
         /\ faults' = faults \o r.faults
  /\ upstreamResults' = Append(upstreamResults, [kind |-> "error", error |-> err])
  /\ UNCHANGED <<env, sent, request, inflight>>

\* The response has gone to the caller: the runtime discards the request, and
\* nothing of it is left for the next one (the module holds no state).
Discard ==
  /\ pc = "done"
  /\ pc' = "idle"
  /\ sent' = [method |-> "", url |-> <<>>, headers |-> HeadersInit(Null, Null, Null), body |-> NoBody]
  /\ request' = NoRequest
  /\ upstreamCalls' = <<>>
  /\ upstreamResults' = <<>>
  /\ responses' = <<>>
  /\ faults' = <<>>
  /\ UNCHANGED <<env, inflight>>

Next ==
  \/ \E init \in RequestInits : Fetch(init)
  \/ Discard
  \/ /\ upstreamCalls # <<>>
     /\ \E res \in UpstreamResponses(upstreamCalls[Len(upstreamCalls)]) : UpstreamResponds(res)
  \/ \E err \in UpstreamErrors : UpstreamFails(err)

Spec == Init /\ [][Next]_vars

\* The awaited upstream call resolves, one way or the other.
UpstreamResolves ==
  /\ pc = "awaiting"
  /\ \/ \E err \in UpstreamErrors : UpstreamFails(err)
     \/ /\ upstreamCalls # <<>>
        /\ \E res \in UpstreamResponses(upstreamCalls[Len(upstreamCalls)]) : UpstreamResponds(res)

\* The same program under the assumption that an issued upstream call
\* eventually completes or fails: the promise awaited at line 30 settles.
FairSpec == Spec /\ WF_vars(UpstreamResolves)

(***************************************************************************)
(* Several requests handled at the same time by one process. The runtime   *)
(* calls the handler once per request; each call runs without interruption *)
(* up to its return or to the await of line 30, where other calls may run. *)
(* All calls read the same env.                                            *)
(***************************************************************************)
\* The requests and upstream behaviours of the concurrent runs.
ConcEnvs == { e \in Envs : e.CLIENT_API_KEY \in {<<"k">>, <<"K">>} }

ConcRequestInits ==
  { [method |-> "GET", url |-> Origin \o ChatCompletionsPath,
     headers |-> HeadersInit(BearerPrefix \o <<"k">>, TextPlain, Null), body |-> NoBody],
    [method |-> "POST", url |-> Origin \o <<"/", "v", "1", "/", "m", "o", "d", "e", "l", "s">>,
     headers |-> HeadersInit(BearerPrefix \o <<"k">>, TextPlain, Null), body |-> BytesBody(<<"k">>)],
    [method |-> "POST", url |-> Origin \o ChatCompletionsPath,
     headers |-> HeadersInit(Null, TextPlain, Null), body |-> BytesBody(<<"k">>)],
    [method |-> "POST", url |-> Origin \o ChatCompletionsPath,
     headers |-> HeadersInit(BearerPrefix \o <<"k">>, TextPlain, Null), body |-> BytesBody(<<"k">>)],
    [method |-> "POST", url |-> Origin \o ChatCompletionsPath,
     headers |-> HeadersInit(BearerPrefix \o <<"K">>, TextPlain, Null), body |-> BytesBody(<<"k">>)] }

ConcUpstreamResponses(call) ==
  { res \in UpstreamResponses(call) :
      /\ res.status \in {200, 500}
      /\ res.body = call.body
      /\ DOMAIN res.headers = {"content-type"} }

\* Faulty variant of CanStart: the handler runs under a lock that a
\* suspended invocation keeps.
CanStart_Serialized(s) == \A t \in Slots \ {s} : inflight[t].pc # "awaiting"

\* line 9: the handler is entered as soon as the runtime calls it; it takes
\* no lock and waits for no other invocation.
CanStart(s) == TRUE

ConcInit ==
  /\ env \in ConcEnvs
  /\ sent = [method |-> "", url |-> <<>>, headers |-> HeadersInit(Null, Null, Null), body |-> NoBody]
  /\ request = NoRequest
  /\ pc = "idle"
  /\ upstreamCalls = <<>>
  /\ upstreamResults = <<>>
  /\ responses = <<>>
  /\ faults = <<>>
  /\ inflight = [s \in Slots |-> IdleInvocation]

\* The runtime calls the handler for a new request while others may be
\* suspended.
ConcFetch(s, init) ==
  /\ inflight[s].pc = "idle"
  /\ ~NewRequestThrows(init)
  /\ CanStart(s)
  /\ LET req == NewRequest(init)
         r   == Admit(req, env)
     IN  inflight' = [inflight EXCEPT ![s] =
           [pc |-> r.pc, sent |-> init, request |-> req,
            upstreamCalls |-> r.calls, upstreamResults |-> <<>>,
            responses |-> r.responses, faults |-> <<>>]]
  /\ UNCHANGED <<env, sent, request, pc, upstreamCalls, upstreamResults, responses, faults>>

\* The upstream answers the call invocation s awaits.
ConcUpstreamResponds(s, res) ==
  /\ inflight[s].pc = "awaiting"
  /\ CanStart(s)
  /\ LET me == inflight[s]
         r  == OnUpstreamResponse(res, me.upstreamCalls[Len(me.upstreamCalls)])
     IN  inflight' = [inflight EXCEPT ![s] =
           [me EXCEPT !.pc = r.pc,
                      !.upstreamCalls = @ \o r.calls,
                      !.responses = @ \o r.responses,
                      !.faults = @ \o r.faults,
                      !.upstreamResults = Append(@, [kind |-> "response", response |-> res])]]
  /\ UNCHANGED <<env, sent, request, pc, upstreamCalls, upstreamResults, responses, faults>>

\* The call invocation s awaits fails in transport.
ConcUpstreamFails(s, err) ==
  /\ inflight[s].pc = "awaiting"
  /\ CanStart(s)
  /\ LET me == inflight[s]
         r  == OnUpstreamFailure(err, me.upstreamCalls[Len(me.upstreamCalls)])
     IN  inflight' = [inflight EXCEPT ![s] =
           [me EXCEPT !.pc = r.pc,
                      !.upstreamCalls = @ \o r.calls,
                      !.responses = @ \o r.responses,
                      !.faults = @ \o r.faults,
                      !.upstreamResults = Append(@, [kind |-> "error", error |-> err])]]
  /\ UNCHANGED <<env, sent, request, pc, upstreamCalls, upstreamResults, responses, faults>>

\* The response of invocation s has gone to its caller.
ConcDiscard(s) ==
  /\ inflight[s].pc = "done"
  /\ inflight' = [inflight EXCEPT ![s] = IdleInvocation]
  /\ UNCHANGED <<env, sent, request, pc, upstreamCalls, upstreamResults, responses, faults>>

ConcNext ==
  \/ \E s \in Slots : \E init \in ConcRequestInits : ConcFetch(s, init)
  \/ \E s \in Slots : ConcDiscard(s)
  \/ \E s \in Slots :
       /\ inflight[s].upstreamCalls # <<>>
       /\ \E res \in ConcUpstreamResponses(inflight[s].upstreamCalls[Len(inflight[s].upstreamCalls)]) :
            ConcUpstreamResponds(s, res)
  \/ \E s \in Slots : \E err \in UpstreamErrors : ConcUpstreamFails(s, err)

ConcSpec == ConcInit /\ [][ConcNext]_vars

(***************************************************************************)
(* Properties.                                                             *)
(***************************************************************************)
\* The error texts as the caller must receive them, written out.
Body405 == <<"{", "\"", "e", "r", "r", "o", "r", "\"", ":", "\"", "M", "e", "t", "h", "o", "d", " ", "N", "o", "t", " ", "A", "l", "l", "o", "w", "e", "d", "\"", "}">>
Body404 == <<"{", "\"", "e", "r", "r", "o", "r", "\"", ":", "\"", "N", "o", "t", " ", "F", "o", "u", "n", "d", "\"", "}">>
Body401 == <<"{", "\"", "e", "r", "r", "o", "r", "\"", ":", "\"", "U", "n", "a", "u", "t", "h", "o", "r", "i", "z", "e", "d", "\"", "}">>
Body502 == <<"{", "\"", "e", "r", "r", "o", "r", "\"", ":", "\"", "B", "a", "d", " ", "G", "a", "t", "e", "w", "a", "y", "\"", "}">>

\* A request is being handled or has been answered.
InHand == pc # "idle"

\* The request's Authorization header, as the Request holds it.
Authorization == HeadersGet(request.headers, "Authorization")

PathMatches == UrlPathname(request.url) = ChatCompletionsPath

\* The Authorization header is exactly "Bearer " followed by the credential.
AuthorizationMatches == Authorization = BearerPrefix \o env.CLIENT_API_KEY

\* The handler returned without the upstream having answered or failed.
AnsweredWithoutUpstreamResult == pc = "done" /\ upstreamResults = <<>>

\* C1: an upstream call is issued if and only if the request has method
\* POST, path /v1/chat/completions and an Authorization header equal to
\* "Bearer " followed by the configured credential (full, case-sensitive
\* match, nothing trimmed by the handler); and a request answered 405, 404 or
\* 401 by the handler has caused no upstream call.
ThmC1_UpstreamCallIffAdmitted ==
  InHand =>
    /\ (upstreamCalls # <<>>) <=>
         (request.method = "POST" /\ PathMatches /\ AuthorizationMatches)
    /\ AnsweredWithoutUpstreamResult =>
         /\ upstreamCalls = <<>>
         /\ Len(responses) = 1
         /\ responses[1].status \in {405, 404, 401}

\* C1 witness: a request with a non-empty credential was admitted and its
\* upstream call issued.
WitC1_Admitted ==
  /\ pc = "awaiting"
  /\ Len(upstreamCalls) = 1
  /\ env.CLIENT_API_KEY # <<>>
  /\ AuthorizationMatches

\* C2: every request whose method is not POST is answered 405 with body
\* {"error":"Method Not Allowed"}, whatever its path and headers.
ThmC2_MethodCheckFirst ==
  (InHand /\ request.method # "POST") =>
    /\ pc = "done"
    /\ Len(responses) = 1
    /\ responses[1].status = 405
    /\ responses[1].body = Body405

\* C2 witness: a DELETE on a wrong path without Authorization was answered.
WitC2_NonPostWrongPathNoAuth ==
  /\ pc = "done"
  /\ request.method = "DELETE"
  /\ ~PathMatches
  /\ Authorization = Null
  /\ responses # <<>>

\* C3: every POST whose path is not /v1/chat/completions is answered 404 with
\* body {"error":"Not Found"}, whatever its Authorization header.
ThmC3_PathCheckBeforeCredential ==
  (InHand /\ request.method = "POST" /\ ~PathMatches) =>
    /\ pc = "done"
    /\ Len(responses) = 1
    /\ responses[1].status = 404
    /\ responses[1].body = Body404

\* C3 witness: a POST on an unknown path without Authorization was answered.
WitC3_UnknownPathUnauthenticated ==
  /\ pc = "done"
  /\ request.method = "POST"
  /\ ~PathMatches
  /\ Authorization = Null
  /\ responses # <<>>

\* C4: every POST on /v1/chat/completions whose Authorization header is
\* absent, does not start with "Bearer ", or is "Bearer " followed by a string
\* other than the credential, is answered 401 with body
\* {"error":"Unauthorized"} and no other key.
ThmC4_Unauthorized ==
  (/\ InHand
   /\ request.method = "POST"
   /\ PathMatches
   /\ \/ Authorization = Null
      \/ ~StartsWith(Authorization, BearerPrefix)
      \/ /\ StartsWith(Authorization, BearerPrefix)
         /\ Authorization # BearerPrefix \o env.CLIENT_API_KEY)
  =>
    /\ pc = "done"
    /\ upstreamCalls = <<>>
    /\ Len(responses) = 1
    /\ responses[1].status = 401
    /\ responses[1].body = Body401

\* C4 witness: the token differs from the credential only by letter case.
WitC4_WrongCase ==
  /\ pc = "done"
  /\ request.method = "POST"
  /\ PathMatches
  /\ env.CLIENT_API_KEY = <<"k">>
  /\ Authorization = BearerPrefix \o <<"K">>
  /\ responses # <<>>

\* C5: a POST on /v1/chat/completions sent with the Authorization value
\* "Bearer " followed by nothing is answered 401 and is never forwarded,
\* whatever the configured credential, the empty credential included.
ThmC5_EmptyTokenRejected ==
  (/\ InHand
   /\ request.method = "POST"
   /\ PathMatches
   /\ Written(sent.headers, "Authorization") = <<BearerPrefix \o <<>>>>)
  =>
    /\ pc = "done"
    /\ upstreamCalls = <<>>
    /\ Len(responses) = 1
    /\ responses[1].status = 401

\* C5 witness: the empty token was presented while the configured
\* credential is empty too.
WitC5_EmptyTokenEmptyCredential ==
  /\ pc = "done"
  /\ request.method = "POST"
  /\ PathMatches
  /\ Written(sent.headers, "Authorization") = <<BearerPrefix>>
  /\ env.CLIENT_API_KEY = <<>>
  /\ responses # <<>>

\* The text s contains the text sub.
Includes(s, sub) ==
  \E i \in 0..(Len(s) - Len(sub)) : SubSeq(s, i + 1, i + Len(sub)) = sub

\* A text, and not Null, that contains sub.
TextIncludes(t, sub) == t # Null /\ Includes(t, sub)

\* Some header value or the body of a response contains sub.
ResponseIncludes(r, sub) ==
  \/ TextIncludes(r.body, sub)
  \/ \E n \in DOMAIN r.headers : TextIncludes(r.headers[n], sub)

\* The fixed error text the gateway writes for a status.
FixedBody(status) ==
  CASE status = 405 -> Body405
    [] status = 404 -> Body404
    [] status = 401 -> Body401
    [] OTHER        -> Body502

UpstreamAnswered == upstreamResults # <<>> /\ upstreamResults[1].kind = "response"

UpstreamFailed == upstreamResults # <<>> /\ upstreamResults[1].kind = "error"

\* C6 as stated: a (non-empty) credential is in no header of a forwarded
\* upstream request.
CexC6_CredentialInNoForwardedHeader ==
  (InHand /\ env.CLIENT_API_KEY # <<>>) =>
    \A i \in 1..Len(upstreamCalls) :
      \A n \in DOMAIN upstreamCalls[i].headers :
        ~TextIncludes(upstreamCalls[i].headers[n], env.CLIENT_API_KEY)

\* C6 as amended: the gateway puts the credential nowhere itself. A forwarded
\* request has the single header Content-Type, and it contains the credential
\* only if the caller's own Content-Type (or the default application/json)
\* does; a response contains the credential only if it is the upstream's
\* response, relayed, or if the fixed error text of its status does.
ThmC6_CredentialNotAddedByGateway ==
  InHand =>
    /\ \A i \in 1..Len(upstreamCalls) :
         \A n \in DOMAIN upstreamCalls[i].headers :
           TextIncludes(upstreamCalls[i].headers[n], env.CLIENT_API_KEY) =>
             \/ TextIncludes(HeadersGet(request.headers, "Content-Type"), env.CLIENT_API_KEY)
             \/ TextIncludes(ApplicationJson, env.CLIENT_API_KEY)
    /\ \A i \in 1..Len(responses) :
         ResponseIncludes(responses[i], env.CLIENT_API_KEY) =>
           \/ UpstreamAnswered /\ responses[i] = upstreamResults[1].response
           \/ /\ ~UpstreamAnswered
              /\ \/ TextIncludes(FixedBody(responses[i].status), env.CLIENT_API_KEY)
                 \/ TextIncludes(ApplicationJson, env.CLIENT_API_KEY)

\* C6 witness: a request whose Content-Type is the credential was forwarded
\* and the upstream echoed that header; the response was relayed.
WitC6_EchoedCredential ==
  /\ pc = "done"
  /\ env.CLIENT_API_KEY = <<"k">>
  /\ HeadersGet(request.headers, "Content-Type") = <<"k">>
  /\ UpstreamAnswered
  /\ Len(responses) = 1
  /\ ResponseIncludes(responses[1], env.CLIENT_API_KEY)

\* C7: the headers of every upstream call are exactly {Content-Type}.
ThmC7_OnlyContentTypeForwarded ==
  \A i \in 1..Len(upstreamCalls) :
    DOMAIN upstreamCalls[i].headers = {"Content-Type"}

\* C7 witness: a request carrying Authorization, Content-Type and
\* X-Request-Id was forwarded.
WitC7_ForwardedWithOtherHeaders ==
  /\ Len(upstreamCalls) = 1
  /\ DOMAIN request.headers = {"authorization", "content-type", "x-request-id"}

\* C8: no exception ever escapes the handler, and a handler that has
\* finished has returned exactly one response with an HTTP status.
ThmC8_NeverThrows ==
  /\ faults = <<>>
  /\ pc = "done" =>
       /\ Len(responses) = 1
       /\ responses[1].status \in 200..599
       /\ DOMAIN responses[1] = {"status", "headers", "body"}

\* C8 witness: the upstream call failed and the handler finished.
WitC8_FinishedAfterFailure ==
  /\ pc = "done"
  /\ UpstreamFailed
  /\ responses # <<>>

\* C9: after a transport failure of any kind the response is 502 with body
\* {"error":"Bad Gateway"} and Content-Type application/json, and holds
\* nothing of the error's message.
ThmC9_BadGateway ==
  (pc = "done" /\ UpstreamFailed) =>
    /\ Len(responses) = 1
    /\ responses[1].status = 502
    /\ responses[1].body = Body502
    /\ DOMAIN responses[1].headers = {"content-type"}
    /\ HeadersGet(responses[1].headers, "Content-Type") = ApplicationJson
    /\ ~ResponseIncludes(responses[1], upstreamResults[1].error.message)

\* C9 witness: the upstream call timed out on an admitted request.
WitC9_TimedOut ==
  /\ pc = "done"
  /\ UpstreamFailed
  /\ upstreamResults[1].error.name = "TimeoutError"
  /\ Len(upstreamCalls) = 1

\* C10: when the upstream answers, with any status, the response returned
\* is the upstream's: same status, same headers, same body.
ThmC10_RelayedUnchanged ==
  (pc = "done" /\ UpstreamAnswered) =>
    /\ Len(responses) = 1
    /\ responses[1].status = upstreamResults[1].response.status
    /\ responses[1].headers = upstreamResults[1].response.headers
    /\ responses[1].body = upstreamResults[1].response.body

\* C10 witness: the upstream answered 502 with a body of its own.
WitC10_Upstream502Relayed ==
  /\ pc = "done"
  /\ UpstreamAnswered
  /\ upstreamResults[1].response.status = 502
  /\ upstreamResults[1].response.body = <<"o", "k">>
  /\ Len(responses) = 1


\* C11: the body of the upstream call is the body the caller sent, byte for
\* byte, an absent body staying absent; it is handed to one upstream call
\* only.
ThmC11_BodyForwardedUnchanged ==
  (InHand /\ upstreamCalls # <<>>) =>
    /\ Len(upstreamCalls) = 1
    /\ upstreamCalls[1].body = sent.body.data

\* C11 witness: a request without a body was forwarded.
WitC11_AbsentBodyForwarded ==
  /\ Len(upstreamCalls) = 1
  /\ sent.body = NoBody
  /\ HeadersGet(request.headers, "Content-Type") = TextPlain


\* C12 as stated: the upstream Content-Type is the inbound Content-Type
\* whenever the request carries that header, an empty value included, and is
\* application/json when the request carries none.
CexC12_ContentTypeCopiedWheneverPresent ==
  (InHand /\ upstreamCalls # <<>>) =>
    /\ "content-type" \in DOMAIN request.headers =>
         upstreamCalls[1].headers["Content-Type"] = request.headers["content-type"]
    /\ "content-type" \notin DOMAIN request.headers =>
         upstreamCalls[1].headers["Content-Type"] = ApplicationJson


\* The one response every request that fails the credential check must get.
Response401 ==
  [status  |-> 401,
   headers |-> [n \in {"content-type"} |-> ApplicationJson],
   body    |-> Body401]

\* The request passed the method and path checks and failed the credential
\* check, for whatever reason.
CredentialCheckFailed ==
  InHand /\ request.method = "POST" /\ PathMatches /\ ~AuthorizationMatches

\* C13: every request that fails the credential check gets one and the same
\* response, in status, headers and body, whatever the reason of the failure,
\* the token presented and the credential configured; so any two such
\* responses are identical.
ThmC13_SameResponseForEveryCredentialFailure ==
  CredentialCheckFailed => responses = <<Response401>>

\* C13 witness: the right token was presented without the "Bearer " prefix.
WitC13_RightTokenWithoutPrefix ==
  /\ CredentialCheckFailed
  /\ env.CLIENT_API_KEY = <<"K">>
  /\ Authorization = <<"K">>
  /\ responses # <<>>


\* The handler finished with a response it built itself.
Synthesized == pc = "done" /\ ~UpstreamAnswered

\* C14: every response the gateway builds itself has status 401, 404, 405 or
\* 502, Content-Type application/json, and the body written out for that
\* status: a JSON object with the single key error and the fixed text of the
\* status. The body is a constant, the same for every request, every
\* configuration and every upstream failure.
ThmC14_SynthesizedResponsesAreFixed ==
  Synthesized =>
    \A i \in 1..Len(responses) :
      /\ responses[i].status \in {401, 404, 405, 502}
      /\ HeadersGet(responses[i].headers, "Content-Type") = ApplicationJson
      /\ responses[i].status = 401 => responses[i].body = Body401
      /\ responses[i].status = 404 => responses[i].body = Body404
      /\ responses[i].status = 405 => responses[i].body = Body405
      /\ responses[i].status = 502 => responses[i].body = Body502

\* C14 witness: a 404 was built for a request carrying the credential as a
\* bearer token, a Content-Type and a body.
WitC14_NotFoundForAuthenticatedRequest ==
  /\ Synthesized
  /\ Len(responses) = 1
  /\ responses[1].status = 404
  /\ AuthorizationMatches
  /\ HeadersGet(request.headers, "Content-Type") # Null
  /\ request.body # Null


\* C15: at most one upstream call is issued per inbound request. Once the
\* call has resolved, by a response of any status or by a transport failure,
\* the handler has finished with its one response and has issued no second
\* call.
ThmC15_SingleUpstreamAttempt ==
  /\ Len(upstreamCalls) <= 1
  /\ Len(upstreamResults) <= 1
  /\ upstreamResults # <<>> =>
       /\ pc = "done"
       /\ Len(upstreamCalls) = 1
       /\ Len(responses) = 1
  /\ UpstreamFailed => responses[1].status = 502
  /\ UpstreamAnswered => responses[1] = upstreamResults[1].response

\* C15 witness: the upstream answered 500 to the one call and the handler
\* finished.
WitC15_FinishedAfterUpstream500 ==
  /\ pc = "done"
  /\ Len(upstreamCalls) = 1
  /\ UpstreamAnswered
  /\ upstreamResults[1].response.status = 500


\* The five terminal outcomes, read from what the handler did.
OutcomeMethodRejected ==
  upstreamCalls = <<>> /\ responses = <<[Response401 EXCEPT !.status = 405, !.body = Body405]>>

OutcomePathRejected ==
  upstreamCalls = <<>> /\ responses = <<[Response401 EXCEPT !.status = 404, !.body = Body404]>>

OutcomeUnauthorized ==
  upstreamCalls = <<>> /\ responses = <<Response401>>

OutcomeUpstreamRelayed ==
  /\ Len(upstreamCalls) = 1
  /\ UpstreamAnswered
  /\ responses = <<upstreamResults[1].response>>

OutcomeUpstreamUnreachable ==
  /\ Len(upstreamCalls) = 1
  /\ UpstreamFailed
  /\ responses = <<[Response401 EXCEPT !.status = 502, !.body = Body502]>>

OutcomesReached ==
  { o \in {"MethodRejected", "PathRejected", "Unauthorized", "UpstreamRelayed", "UpstreamUnreachable"} :
      \/ o = "MethodRejected" /\ OutcomeMethodRejected
      \/ o = "PathRejected" /\ OutcomePathRejected
      \/ o = "Unauthorized" /\ OutcomeUnauthorized
      \/ o = "UpstreamRelayed" /\ OutcomeUpstreamRelayed
      \/ o = "UpstreamUnreachable" /\ OutcomeUpstreamUnreachable }

\* C16: if an issued upstream call eventually completes or fails, every
\* request in hand eventually has finished with exactly one response and
\* exactly one of the five terminal outcomes; no request ever has two
\* responses, and a request whose upstream call has resolved has finished.
ThmC16_EveryRequestEndsInOneOutcome ==
  /\ [](Len(responses) <= 1)
  /\ [](upstreamResults # <<>> => pc = "done")
  /\ [](pc = "done" => Len(responses) = 1 /\ Cardinality(OutcomesReached) = 1)
  /\ (InHand ~> (pc = "done" /\ Len(responses) = 1 /\ Cardinality(OutcomesReached) = 1))

\* C16 witness: a request suspended on its upstream call ended as
\* UpstreamUnreachable after a name-resolution failure.
WitC16_EndedUnreachable ==
  /\ pc = "done"
  /\ OutcomesReached = {"UpstreamUnreachable"}
  /\ upstreamResults[1].error.name = "Error"


\* What a request gets when it is handled alone: the rejection of the first
\* check it fails or, if it passes all three, what the upstream behaviour
\* met by its own call leads to.
AloneResponses(req, e, results) ==
  IF req.method # "POST"
  THEN <<[Response401 EXCEPT !.status = 405, !.body = Body405]>>
  ELSE IF UrlPathname(req.url) # ChatCompletionsPath
  THEN <<[Response401 EXCEPT !.status = 404, !.body = Body404]>>
  ELSE IF HeadersGet(req.headers, "Authorization") # BearerPrefix \o e.CLIENT_API_KEY
  THEN <<Response401>>
  ELSE IF results = <<>>
  THEN <<>>
  ELSE IF results[1].kind = "response"
  THEN <<results[1].response>>
  ELSE <<[Response401 EXCEPT !.status = 502, !.body = Body502]>>

\* Another invocation than s is suspended on its upstream call.
OtherSuspended(s) == \E t \in Slots \ {s} : inflight[t].pc = "awaiting"

\* C17: whatever the other invocations do, every invocation holds the
\* responses it would hold alone with the same upstream behaviour; and while
\* another invocation is suspended on its upstream call, the handler can be
\* entered for a request of an idle slot (to admit or to reject it) and a
\* suspended invocation can complete either way.
ThmC17_ConcurrentRequestsIndependent ==
  \A s \in Slots :
    /\ inflight[s].pc # "idle" =>
         /\ inflight[s].responses =
              AloneResponses(inflight[s].request, env, inflight[s].upstreamResults)
         /\ inflight[s].faults = <<>>
         /\ (inflight[s].pc = "done") = (inflight[s].responses # <<>>)
    /\ (OtherSuspended(s) /\ inflight[s].pc = "idle") => CanStart(s)
    /\ (OtherSuspended(s) /\ inflight[s].pc = "awaiting") =>
         /\ \A err \in UpstreamErrors : ENABLED ConcUpstreamFails(s, err)
         /\ \A res \in ConcUpstreamResponses(inflight[s].upstreamCalls[1]) :
              ENABLED ConcUpstreamResponds(s, res)

\* C17 witness: two invocations forwarded the same request; one has got the
\* upstream's 500 while the other is still suspended on its call.
WitC17_OneRelayedWhileOtherSuspended ==
  /\ inflight[1].pc = "awaiting"
  /\ inflight[2].pc = "done"
  /\ inflight[2].sent = inflight[1].sent
  /\ inflight[2].responses[1].status = 500
  /\ inflight[2].upstreamResults[1].kind = "response"


\* What the handler decided about the request in hand, read from what it
\* did: a call issued, or the status of the rejection.
AdmissionOutcome ==
  IF upstreamCalls # <<>> THEN "Forwarded"
  ELSE IF responses = <<>> THEN "None"
  ELSE CASE responses[1].status = 405 -> "MethodRejected"
         [] responses[1].status = 404 -> "PathRejected"
         [] responses[1].status = 401 -> "Unauthorized"
         [] OTHER -> "None"

\* The admission outcome as a function of the four values alone.
ExpectedOutcome(method, path, authorization, credential) ==
  IF method # "POST" THEN "MethodRejected"
  ELSE IF path # ChatCompletionsPath THEN "PathRejected"
  ELSE IF authorization # BearerPrefix \o credential THEN "Unauthorized"
  ELSE "Forwarded"

\* C18: the admission outcome of every request is the value of one function
\* of its method, its path, its Authorization header and the configured
\* credential; so requests that agree on the four get the same outcome,
\* whatever their body, Content-Type and other headers, the upstream address,
\* the upstream's behaviour and the requests handled before.
ThmC18_OutcomeDependsOnFourValues ==
  InHand =>
    AdmissionOutcome =
      ExpectedOutcome(request.method, UrlPathname(request.url), Authorization, env.CLIENT_API_KEY)

\* C18 witness: a POST on the right path with a body and a Content-Type
\* that carries the credential in X-Request-Id and no Authorization.
WitC18_CredentialInAnotherHeader ==
  /\ InHand
  /\ AdmissionOutcome = "Unauthorized"
  /\ Authorization = Null
  /\ env.CLIENT_API_KEY = <<"k">>
  /\ HeadersGet(request.headers, "X-Request-Id") = <<"k">>
  /\ HeadersGet(request.headers, "Content-Type") = TextPlain
  /\ request.body # Null


\* C19: every upstream call is a POST to the configured base address
\* followed by /v1/chat/completions: a text fixed by the configuration, with
\* nothing of the inbound request's host, query string, headers or body.
ThmC19_FixedUpstreamTarget ==
  \A i \in 1..Len(upstreamCalls) :
    /\ upstreamCalls[i].method = "POST"
    /\ upstreamCalls[i].url =
         env.LITELLM_URL \o <<"/", "v", "1", "/", "c", "h", "a", "t", "/", "c", "o", "m", "p", "l", "e", "t", "i", "o", "n", "s">>

\* C19 witness: a request with a query string was forwarded under a base
\* address that has a path of its own.
WitC19_QueryNotCarriedOver ==
  /\ Len(upstreamCalls) = 1
  /\ request.url = Origin \o ChatCompletionsPath \o <<"?", "k">>
  /\ env.LITELLM_URL = <<"h", "t", "t", "p", ":", "/", "/", "u", "/", "x">>


\* The URLs a caller writes for the chat completions path, bare and with a
\* query string, and the URLs whose path differs from it by a trailing
\* slash, a suffix segment, a prefix and the letter case.
UrlsOfThePath ==
  { <<"h", "t", "t", "p", ":", "/", "/", "h", "/", "v", "1", "/", "c", "h", "a", "t", "/", "c", "o", "m", "p", "l", "e", "t", "i", "o", "n", "s">> \o q :
      q \in { <<>>, <<"?", "k">>, <<"?", "/", "k">> } }

UrlsOfOtherPaths ==
  { <<"h", "t", "t", "p", ":", "/", "/", "h", "/", "v", "1", "/", "c", "h", "a", "t", "/", "c", "o", "m", "p", "l", "e", "t", "i", "o", "n", "s", "/">>,
    <<"h", "t", "t", "p", ":", "/", "/", "h", "/", "v", "1", "/", "c", "h", "a", "t", "/", "c", "o", "m", "p", "l", "e", "t", "i", "o", "n", "s", "/", "k">>,
    <<"h", "t", "t", "p", ":", "/", "/", "h", "/", "k", "/", "v", "1", "/", "c", "h", "a", "t", "/", "c", "o", "m", "p", "l", "e", "t", "i", "o", "n", "s">>,
    <<"h", "t", "t", "p", ":", "/", "/", "h", "/", "V", "1", "/", "c", "h", "a", "t", "/", "c", "o", "m", "p", "l", "e", "t", "i", "o", "n", "s">> }

\* C20: for a POST, only the path component of the URL decides the path
\* check. With any query string after /v1/chat/completions the request is
\* treated as with the bare path, and the credential check decides; with a
\* trailing slash, a suffix segment, a prefix or another letter case in the
\* path the answer is the 404.
ThmC20_PathCheckIgnoresQuery ==
  (InHand /\ request.method = "POST") =>
    /\ sent.url \in UrlsOfThePath =>
         AdmissionOutcome = (IF AuthorizationMatches THEN "Forwarded" ELSE "Unauthorized")
    /\ sent.url \in UrlsOfOtherPaths =>
         /\ AdmissionOutcome = "PathRejected"
         /\ responses = <<[Response401 EXCEPT !.status = 404, !.body = Body404]>>
    /\ (AdmissionOutcome = "PathRejected") = (UrlPathname(request.url) # ChatCompletionsPath)

\* C20 witness: a POST whose URL has a query string holding a slash, with a
\* wrong token, was answered by the credential check.
WitC20_QueryThenCredentialCheck ==
  /\ InHand
  /\ request.method = "POST"
  /\ sent.url = Origin \o ChatCompletionsPath \o <<"?", "/", "k">>
  /\ Authorization = BearerPrefix \o <<"K">>
  /\ env.CLIENT_API_KEY = <<"k">>
  /\ AdmissionOutcome = "Unauthorized"

====
